---- MODULE Spec2Model ----
(***************************************************************************)
(* Navigation server of SmartCane_Route (src/server.py) with its           *)
(* collaborators RouteManager (src/routing.py) and GeocodingManager        *)
(* (src/geocoding.py).                                                     *)
(*                                                                         *)
(* The server is one asyncio event loop.  Every websocket connection runs  *)
(* websocket_endpoint; all of them, and the HTTP endpoint /reroute, read   *)
(* and write the single module-level object nav_state.  A handler gives    *)
(* up the loop only at an await; geocoding and route computation are       *)
(* ordinary (blocking) calls.                                              *)
(***************************************************************************)
EXTENDS Integers, Sequences, FiniteSets, TLC

VARIABLES
    gui_task,            \* the start-up task run_gui: "pending" | "done"
    navigation_gui,      \* server.py:36  TRUE when the global holds a GUI object
    nav_state,           \* server.py:65  the module-level NavigationState
    active_connections,  \* server.py:70  ConnectionManager.active_connections
    pc,                  \* per websocket: where its websocket_endpoint stands
    local,               \* per websocket: the local current_location (151-154)
    http_pc,             \* the /reroute endpoint: "idle" | "call"
    stale,               \* computations in flight that began before a stop / new destination
    stopped,             \* websockets whose stop was handled and no destination set since
    window,              \* what happened in the current request interval
    last,                \* the handler step just taken and what it did
    unit                 \* arguments and result of a function applied on its own

vars == <<gui_task, navigation_gui, nav_state, active_connections, pc, local,
          http_pc, stale, stopped, window, last, unit>>

----------------------------------------------------------------------------
(* Bounds of the model *)

NumClients == 2
MaxCount == 2

Clients == 1..NumClients

\* Python's None; every optional value is a record with a shape field.
None == [shape |-> "none"]

----------------------------------------------------------------------------
(* Coordinates.  The four places are concrete coordinates; HaversineCm is   *)
(* the distance is_near_destination computes for them (R = 6371e3), in      *)
(* whole centimetres.                                                       *)
(*   DAEYEON (35.1349964, 129.091565)   test_client.py destination          *)
(*   NEAR    (35.1351,    129.091565)   11.52 m from DAEYEON                *)
(*   EDGE    (35.1352,    129.091565)   22.64 m from DAEYEON                *)
(*   PKNU    (35.132786,  129.106946)   1420.12 m from DAEYEON              *)
(*   OUTSIDE (91.0,       129.091565)   a latitude no place has; the        *)
(*           formula still yields a number for it (6211.9 km from DAEYEON)  *)

Places == {"DAEYEON", "NEAR", "EDGE", "PKNU", "OUTSIDE"}

Addresses == {"DAEYEON", "PKNU"}

HaversineCm(a, b) ==
    LET pair == {a, b} IN
    CASE a = b                       -> 0
      [] pair = {"DAEYEON", "NEAR"}  -> 1151
      [] pair = {"DAEYEON", "EDGE"}  -> 2263
      [] pair = {"DAEYEON", "PKNU"}  -> 142012
      [] pair = {"NEAR", "EDGE"}     -> 1111
      [] pair = {"NEAR", "PKNU"}     -> 142215
      [] pair = {"EDGE", "PKNU"}     -> 142421
      [] pair = {"OUTSIDE", "DAEYEON"} -> 621190497
      [] pair = {"OUTSIDE", "NEAR"}    -> 621189345
      [] pair = {"OUTSIDE", "EDGE"}    -> 621188233
      [] pair = {"OUTSIDE", "PKNU"}    -> 621215075

\* Python values: a coordinate pair is either a tuple (lat, lon) or a dict
\* {'latitude': .., 'longitude': ..}.
Tuple(p) == [shape |-> "tuple", at |-> p]
Dict(p) == [shape |-> "dict", at |-> p]
Shape(v) == v.shape
At(v) == v.at

\* threshold: float = 20.0 (metres), server.py:209
ArrivalThresholdCm == 2000

\* server.py:209-225.  destination[0] on None raises; the callers below only
\* reach it with a destination set (line 150), see ArrivalCheck.
is_near_destination(current, destination) ==
    HaversineCm(At(current), At(destination)) <= ArrivalThresholdCm

\* server.py:202-207: both branches return True.
should_update_route(current_location, current_route) ==
    IF current_route = None THEN TRUE ELSE TRUE

----------------------------------------------------------------------------
(* RouteManager.get_directions, routing.py:98-122.  The URL is built inside *)
(* the try block from end['longitude'] and end['latitude']; with a tuple    *)
(* for end the subscript raises TypeError, which the except clause turns    *)
(* into None before requests.get is reached.  svc is what the routing       *)
(* service would answer: "route", "noroute" (an answer without routes) or   *)
(* "timeout" (a transient failure: timeout, 5xx; requests raises).          *)

ServiceAnswers == {"route", "noroute", "timeout"}

\* data['routes'][0] of the OSRM answer: keys geometry, legs, distance,
\* duration; there is no key 'steps' at this level (routing.py:130 reads
\* route['legs'][0]['steps']).
OsrmRoute(start, end) == [shape |-> "route", from |-> At(start), to |-> At(end)]

HasStepsKey(route) == FALSE

get_directions_any_end(start, end, svc) ==
    [issued |-> TRUE, attempts |-> 1,
     route  |-> IF svc = "route" THEN OsrmRoute(start, end) ELSE None]

\* attempts: the number of times requests.get (line 109) is called.
get_directions(start, end, svc) ==
    IF Shape(end) = "dict"
    THEN [issued |-> TRUE, attempts |-> 1,
          route  |-> IF svc = "route" THEN OsrmRoute(start, end) ELSE None]
    ELSE [issued |-> FALSE, attempts |-> 0, route |-> None]

\* GeocodingManager.validate_address, geocoding.py:62-77: a dict with the
\* keys latitude and longitude, or None (not found, service error).
GeocodeResults == {Dict(p) : p \in Addresses} \cup {None}

\* What the geocoding service does for one geocode call: it finds a place,
\* finds nothing, or fails (GeocoderServiceError, timeout).
GeocoderAnswers ==
    {[kind |-> "found", at |-> p] : p \in Addresses}
        \cup {[kind |-> "nothing"], [kind |-> "error"]}

\* validate_address as a function of that answer: one call of
\* self.geolocator.geocode (line 65), whose failure is turned into None.
validate_address(answer) ==
    [attempts |-> 1,
     coords   |-> IF answer.kind = "found" THEN Dict(answer.at) ELSE None]

----------------------------------------------------------------------------
(* NavigationState, server.py:39-63 (last_update, a wall-clock stamp, is    *)
(* not modelled).                                                           *)

NavInit ==
    [destination |-> None, current_location |-> None, route |-> None,
     is_active |-> FALSE]

update_location(ns, location) ==
    [ns EXCEPT !.current_location = Tuple(At(location))]

set_destination(ns, destination) ==
    [ns EXCEPT !.destination = Tuple(At(destination)), !.is_active = TRUE]

clear_keeps_active(ns) ==
    [ns EXCEPT !.destination = None, !.current_location = None,
               !.route = None]

clear(ns) ==
    [ns EXCEPT !.destination = None, !.current_location = None,
               !.route = None, !.is_active = FALSE]

\* get_status, server.py:227-236: what GET /status reports of the
\* navigation state (last_update and osrm_status are not modelled)
get_status(ns) ==
    [active |-> ns.is_active, destination |-> ns.destination,
     current_location |-> ns.current_location]

----------------------------------------------------------------------------
(* The event loop.  A handler inside get_directions holds the loop: the     *)
(* call is synchronous (requests.get, no await), so nothing else runs       *)
(* until it returns.                                                        *)

InCall(c) == pc[c] \in {"loc_call", "cmd_call"}

Callers == {c \in Clients : InCall(c)} \cup (IF http_pc = "call" THEN {0} ELSE {})

LoopFreeAsync == TRUE

LoopFree == Callers = {}

Bump(n) == IF n < MaxCount THEN n + 1 ELSE n

\* last: whose handler step was just taken, for which message, how the
\* message stood to the state when it was applied (pre), the events sent to
\* that websocket for the message so far (out), the routing-service answer
\* consumed in this step (svc) and whether the message is now fully handled;
\* called: the handling entered get_directions; checked: it evaluated
\* is_near_destination; again: a location message reported the location
\* nav_state already held.
Step(c, t, pre, out, svc, done) ==
    [client |-> c, type |-> t, pre |-> pre, out |-> out, svc |-> svc,
     done |-> done, called |-> FALSE, checked |-> FALSE, again |-> FALSE]

NoStep(t) == Step(0, t, "na", {}, "na", TRUE)

\* The step that resumes websocket c's message of type t after its call.
Resume(c, t) ==
    IF last.client = c /\ last.type = t /\ ~last.done
    THEN last
    ELSE Step(c, t, "na", {}, "na", FALSE)

Init ==
    /\ gui_task = "pending"
    /\ navigation_gui = FALSE
    /\ nav_state = NavInit
    /\ active_connections = {}
    /\ pc = [c \in Clients |-> "closed"]
    /\ local = [c \in Clients |-> None]
    /\ http_pc = "idle"
    /\ stale = {}
    /\ stopped = {}
    /\ window = [calls |-> 0, requests |-> 0]
    /\ last = NoStep("none")
    /\ unit = [phase |-> "off"]

Serving == gui_task = "done" /\ LoopFree

----------------------------------------------------------------------------
(* Start-up, server.py:253-275 and 99-115: startup_event creates the task   *)
(* run_gui, whose first step init_gui sets navigation_gui; when tk.Tk() or  *)
(* the GUI constructor raises, the task ends and the global stays None.     *)
(* The task has its first run before the server accepts a connection.       *)

RunGui(ok) ==
    /\ gui_task = "pending"
    /\ gui_task' = "done"
    /\ navigation_gui' = ok
    /\ last' = NoStep("gui")
    /\ UNCHANGED <<unit, nav_state, active_connections, pc, local, http_pc,
                   stale, stopped, window>>

----------------------------------------------------------------------------
(* ConnectionManager, server.py:67-81, and the ends of websocket_endpoint   *)

\* manager.connect, server.py:72-76 (called at line 120)
Connect(c) ==
    /\ Serving
    /\ pc[c] = "closed"
    /\ active_connections' = active_connections \cup {c}
    /\ pc' = [pc EXCEPT ![c] = "recv"]
    /\ last' = Step(c, "connect", "na", {}, "na", TRUE)
    /\ UNCHANGED <<unit, gui_task, navigation_gui, nav_state, local, http_pc, stale,
                   stopped, window>>

\* receive_text raises WebSocketDisconnect, server.py:196-197.  nav_state is
\* left as it is.
ClientDisconnect(c) ==
    /\ Serving
    /\ pc[c] = "recv"
    /\ active_connections' = active_connections \ {c}
    /\ pc' = [pc EXCEPT ![c] = "closed"]
    /\ stopped' = stopped \ {c}
    /\ last' = Step(c, "disconnect", "na", {}, "na", TRUE)
    /\ UNCHANGED <<unit, gui_task, navigation_gui, nav_state, local, http_pc, stale,
                   window>>

----------------------------------------------------------------------------
(* websocket_endpoint, message type "destination", server.py:126-145       *)

RecvDestinationClears(c, coords) ==
    /\ Serving
    /\ pc[c] = "recv"
    /\ IF coords # None
       THEN /\ nav_state' = set_destination(nav_state, coords)
            /\ stopped' = {}
            /\ stale' = stale \cup Callers
            /\ IF navigation_gui
               THEN /\ pc' = [pc EXCEPT ![c] = "closed"]
                    /\ active_connections' = active_connections \ {c}
                    /\ last' = Step(c, "destination", "found", {}, "na", TRUE)
               ELSE /\ last' = Step(c, "destination", "found",
                                    {"voice_guidance"}, "na", TRUE)
                    /\ UNCHANGED <<pc, active_connections>>
       ELSE /\ nav_state' = clear(nav_state)
            /\ last' = Step(c, "destination", "notfound", {"voice_guidance"},
                            "na", TRUE)
            /\ UNCHANGED <<stopped, stale, pc, active_connections>>
    /\ UNCHANGED <<unit, gui_task, navigation_gui, local, http_pc, window>>

\* coords is the geocoder's answer.  With a GUI, line 135 reads
\* coords['address'], a key validate_address never sets: KeyError, caught at
\* line 198, after set_destination has run.
RecvDestination(c, coords) ==
    /\ Serving
    /\ pc[c] = "recv"
    /\ IF coords # None
       THEN /\ nav_state' = set_destination(nav_state, coords)
            /\ stopped' = {}
            /\ stale' = stale \cup Callers
            /\ IF navigation_gui
               THEN /\ pc' = [pc EXCEPT ![c] = "closed"]
                    /\ active_connections' = active_connections \ {c}
                    /\ last' = Step(c, "destination", "found", {}, "na", TRUE)
               ELSE /\ last' = Step(c, "destination", "found",
                                    {"voice_guidance"}, "na", TRUE)
                    /\ UNCHANGED <<pc, active_connections>>
       ELSE /\ last' = Step(c, "destination", "notfound", {"voice_guidance"},
                            "na", TRUE)
            /\ UNCHANGED <<nav_state, stopped, stale, pc, active_connections>>
    /\ UNCHANGED <<unit, gui_task, navigation_gui, local, http_pc, window>>

----------------------------------------------------------------------------
(* websocket_endpoint, message type "location", server.py:147-178          *)

\* How a location stands to the destination when the update is applied.
Relation(ns, p) ==
    IF ns.destination = None THEN "nodest"
    ELSE IF is_near_destination(Tuple(p), ns.destination) THEN "near"
    ELSE "far"

ArrivalCheckDetached(c, cur, ns, step) ==
    /\ local' = [local EXCEPT ![c] = None]
    /\ nav_state' = ns
    /\ pc' = [pc EXCEPT ![c] = "recv"]
    /\ last' = IF ns.destination # None /\ is_near_destination(cur, ns.destination)
               THEN [step EXCEPT !.out = @ \cup {"navigation_end"},
                                 !.checked = TRUE]
               ELSE [step EXCEPT !.done = TRUE, !.checked = TRUE]
    /\ UNCHANGED active_connections

\* Lines 172-178 for websocket c, after any route refresh: ns is the state
\* to continue from, step the step record so far.
ArrivalCheck(c, cur, ns, step) ==
    /\ local' = [local EXCEPT ![c] = None]
    /\ IF ns.destination = None
       THEN \* destination[0] raises TypeError, caught at line 198
            /\ nav_state' = ns
            /\ pc' = [pc EXCEPT ![c] = "closed"]
            /\ active_connections' = active_connections \ {c}
            /\ last' = [step EXCEPT !.done = TRUE]
       ELSE IF is_near_destination(cur, ns.destination)
       THEN \* line 174: the send is awaited, clear() follows at line 178
            /\ nav_state' = ns
            /\ pc' = [pc EXCEPT ![c] = "arrive_send"]
            /\ last' = [step EXCEPT !.out = @ \cup {"navigation_end"},
                                    !.checked = TRUE]
            /\ UNCHANGED active_connections
       ELSE /\ nav_state' = ns
            /\ pc' = [pc EXCEPT ![c] = "recv"]
            /\ last' = [step EXCEPT !.done = TRUE, !.checked = TRUE]
            /\ UNCHANGED active_connections

\* Lines 149-161: the update, the gate on GUI and destination, and the entry
\* into get_directions.
RecvLocation(c, p) ==
    /\ Serving
    /\ pc[c] = "recv"
    /\ LET ns   == update_location(nav_state, Dict(p))
           step == [Step(c, "location", Relation(ns, p), {}, "na", FALSE)
                       EXCEPT !.again = (nav_state.current_location = Tuple(p))]
       IN  /\ window' = [window EXCEPT
                 !.calls = IF navigation_gui /\ ns.destination # None
                              /\ should_update_route(Tuple(p), ns.route)
                           THEN Bump(@) ELSE @]
           /\ IF navigation_gui /\ ns.destination # None
              THEN IF should_update_route(Tuple(p), ns.route)
                   THEN /\ local' = [local EXCEPT ![c] = Tuple(p)]
                        /\ nav_state' = ns
                        /\ pc' = [pc EXCEPT ![c] = "loc_call"]
                        /\ last' = [step EXCEPT !.called = TRUE]
                        /\ UNCHANGED active_connections
                   ELSE ArrivalCheck(c, Tuple(p), ns, step)
              ELSE /\ nav_state' = ns
                   /\ last' = [step EXCEPT !.done = TRUE]
                   /\ UNCHANGED <<pc, local, active_connections>>
    /\ UNCHANGED <<unit, gui_task, navigation_gui, http_pc, stale, stopped>>

ReturnLocGuides(c, svc) ==
    /\ pc[c] = "loc_call"
    /\ LET r    == get_directions(local[c], nav_state.destination, svc)
           step == [Resume(c, "location") EXCEPT !.svc = svc,
                        !.out = @ \cup {"voice_guidance"}]
       IN  /\ window' = [window EXCEPT
                 !.requests = IF r.issued THEN Bump(@) ELSE @]
           /\ ArrivalCheck(c, local[c],
                           IF r.route # None
                           THEN [nav_state EXCEPT !.route = r.route]
                           ELSE nav_state,
                           step)
    /\ stale' = stale \ {c}
    /\ UNCHANGED <<unit, gui_task, navigation_gui, http_pc, stopped>>

\* Lines 158-178: get_directions returns; a route is installed and its
\* first step sent (new_route['steps'] raises KeyError on an OSRM route),
\* then the arrival check.
ReturnLoc(c, svc) ==
    /\ pc[c] = "loc_call"
    /\ LET r    == get_directions(local[c], nav_state.destination, svc)
           step == [Resume(c, "location") EXCEPT !.svc = svc]
       IN  /\ window' = [window EXCEPT
                 !.requests = IF r.issued THEN Bump(@) ELSE @]
           /\ IF r.route # None
              THEN LET ns == [nav_state EXCEPT !.route = r.route] IN
                   IF HasStepsKey(r.route)
                   THEN ArrivalCheck(c, local[c], ns,
                            [step EXCEPT !.out = @ \cup {"voice_guidance"}])
                   ELSE /\ nav_state' = ns
                        /\ pc' = [pc EXCEPT ![c] = "closed"]
                        /\ local' = [local EXCEPT ![c] = None]
                        /\ active_connections' = active_connections \ {c}
                        /\ last' = [step EXCEPT !.done = TRUE]
              ELSE ArrivalCheck(c, local[c], nav_state, step)
    /\ stale' = stale \ {c}
    /\ UNCHANGED <<unit, gui_task, navigation_gui, http_pc, stopped>>

\* Line 178, after the awaited send of navigation_end.
ArriveClear(c) ==
    /\ Serving
    /\ pc[c] = "arrive_send"
    /\ nav_state' = clear(nav_state)
    /\ pc' = [pc EXCEPT ![c] = "recv"]
    /\ last' = IF last.client = c /\ last.type = "location" /\ ~last.done
               THEN [last EXCEPT !.done = TRUE]
               ELSE [Step(c, "location", "near", {"navigation_end"}, "na", TRUE)
                        EXCEPT !.checked = TRUE]
    /\ UNCHANGED <<unit, gui_task, navigation_gui, active_connections, local,
                   http_pc, stale, stopped, window>>

----------------------------------------------------------------------------
(* websocket_endpoint, message type "command", server.py:180-194           *)

RecvStop(c) ==
    /\ Serving
    /\ pc[c] = "recv"
    /\ nav_state' = clear(nav_state)
    /\ stopped' = stopped \cup {c}
    /\ stale' = stale \cup Callers
    /\ last' = Step(c, "stop", "na", {}, "na", TRUE)
    /\ UNCHANGED <<unit, gui_task, navigation_gui, active_connections, pc, local,
                   http_pc, window>>

CanRerouteEither(ns) == ns.current_location # None \/ ns.destination # None

\* Line 186 (and line 241): a tuple is truthy whatever its numbers.
CanReroute(ns) == ns.current_location # None /\ ns.destination # None

RecvReroute(c) ==
    /\ Serving
    /\ pc[c] = "recv"
    /\ IF CanReroute(nav_state)
       THEN /\ pc' = [pc EXCEPT ![c] = "cmd_call"]
            /\ window' = [window EXCEPT !.calls = Bump(@)]
            /\ last' = [Step(c, "reroute", "both", {}, "na", FALSE)
                            EXCEPT !.called = TRUE]
       ELSE /\ last' = Step(c, "reroute", "missing", {}, "na", TRUE)
            /\ UNCHANGED <<pc, window>>
    /\ UNCHANGED <<unit, gui_task, navigation_gui, nav_state, active_connections,
                   local, http_pc, stale, stopped>>

\* Lines 187-194.
ReturnCmd(c, svc) ==
    /\ pc[c] = "cmd_call"
    /\ LET r == get_directions(nav_state.current_location,
                               nav_state.destination, svc)
       IN  /\ window' = [window EXCEPT
                 !.requests = IF r.issued THEN Bump(@) ELSE @]
           /\ nav_state' = IF r.route # None
                           THEN [nav_state EXCEPT !.route = r.route]
                           ELSE nav_state
    /\ pc' = [pc EXCEPT ![c] = "recv"]
    /\ stale' = stale \ {c}
    /\ last' = [Resume(c, "reroute") EXCEPT !.svc = svc, !.done = TRUE]
    /\ UNCHANGED <<unit, gui_task, navigation_gui, active_connections, local,
                   http_pc, stopped>>

\* A message the handler cannot take apart: text that is not JSON (line
\* 124), no "type" key (126), no "data" key (128, 149, 181), location data
\* without latitude or longitude (line 50, raised before the assignment).
\* The exception leaves the loop and is caught at line 198.
RecvMalformed(c) ==
    /\ Serving
    /\ pc[c] = "recv"
    /\ pc' = [pc EXCEPT ![c] = "closed"]
    /\ active_connections' = active_connections \ {c}
    /\ last' = Step(c, "malformed", "na", {}, "na", TRUE)
    /\ UNCHANGED <<unit, gui_task, navigation_gui, nav_state, local, http_pc,
                   stale, stopped, window>>

\* Any other message type or command: no branch is taken, the loop goes on.
RecvOther(c) ==
    /\ Serving
    /\ pc[c] = "recv"
    /\ last' = Step(c, "other", "na", {}, "na", TRUE)
    /\ UNCHANGED <<unit, gui_task, navigation_gui, nav_state, active_connections,
                   pc, local, http_pc, stale, stopped, window>>

----------------------------------------------------------------------------
(* POST /reroute, server.py:238-251                                        *)

HttpReroute ==
    /\ Serving
    /\ IF CanReroute(nav_state)
       THEN /\ http_pc' = "call"
            /\ window' = [window EXCEPT !.calls = Bump(@)]
            /\ last' = [Step(0, "http_reroute", "both", {}, "na", FALSE)
                            EXCEPT !.called = TRUE]
       ELSE /\ last' = Step(0, "http_reroute", "missing", {}, "na", TRUE)
            /\ UNCHANGED <<http_pc, window>>
    /\ UNCHANGED <<unit, gui_task, navigation_gui, nav_state, active_connections,
                   pc, local, stale, stopped>>

HttpReturn(svc) ==
    /\ http_pc = "call"
    /\ LET r == get_directions(nav_state.current_location,
                               nav_state.destination, svc)
       IN  /\ window' = [window EXCEPT
                 !.requests = IF r.issued THEN Bump(@) ELSE @]
           /\ nav_state' = IF r.route # None
                           THEN [nav_state EXCEPT !.route = r.route]
                           ELSE nav_state
    /\ http_pc' = "idle"
    /\ stale' = stale \ {0}
    /\ last' = [Resume(0, "http_reroute") EXCEPT !.svc = svc, !.done = TRUE]
    /\ UNCHANGED <<unit, gui_task, navigation_gui, active_connections, pc, local,
                   stopped>>

----------------------------------------------------------------------------
(* Time: one request interval ends and the next begins.                    *)

Tick ==
    /\ Serving
    /\ window # [calls |-> 0, requests |-> 0]
    /\ window' = [calls |-> 0, requests |-> 0]
    /\ last' = NoStep("tick")
    /\ UNCHANGED <<unit, gui_task, navigation_gui, nav_state, active_connections,
                   pc, local, http_pc, stale, stopped>>

Next ==
    \/ \E ok \in BOOLEAN : RunGui(ok)
    \/ \E c \in Clients : Connect(c)
    \/ \E c \in Clients : ClientDisconnect(c)
    \/ \E c \in Clients : \E coords \in GeocodeResults : RecvDestination(c, coords)
    \/ \E c \in Clients : \E p \in Places : RecvLocation(c, p)
    \/ \E c \in Clients : \E svc \in ServiceAnswers : ReturnLoc(c, svc)
    \/ \E c \in Clients : ArriveClear(c)
    \/ \E c \in Clients : RecvStop(c)
    \/ \E c \in Clients : RecvReroute(c)
    \/ \E c \in Clients : \E svc \in ServiceAnswers : ReturnCmd(c, svc)
    \/ \E c \in Clients : RecvMalformed(c)
    \/ \E c \in Clients : RecvOther(c)
    \/ HttpReroute
    \/ \E svc \in ServiceAnswers : HttpReturn(svc)
    \/ Tick

Spec == Init /\ [][Next]_vars

----------------------------------------------------------------------------
(* The reroute decision and the call it leads to (server.py:157-161),      *)
(* applied on their own to the arguments the handler passes: a location,   *)
(* nav_state.route, which is None (no route is ever installed), and        *)
(* nav_state.destination, the tuple set_destination stores (line 55).      *)

\* route['geometry']['coordinates'] of a route between two places
Geometry(route) == <<route.from, route.to>>

\* OSRMServer.should_update_route, server_manager.py:169-188.  With two or
\* more coordinates point_to_line_distance (129-167) calls
\* self.calculate_distance, which OSRMServer does not define: the
\* AttributeError is caught at line 186 and the answer is True.  With
\* fewer the minimum stays inf, and inf > threshold.
osrm_should_update_route(current_location, current_route) ==
    IF current_route = None
    THEN TRUE
    ELSE IF Len(Geometry(current_route)) >= 2 THEN TRUE ELSE TRUE

UnitEnds == {Tuple(b) : b \in Addresses}

InitReroute ==
    /\ gui_task = "pending"
    /\ navigation_gui = FALSE
    /\ nav_state = NavInit
    /\ active_connections = {}
    /\ pc = [c \in Clients |-> "closed"]
    /\ local = [c \in Clients |-> None]
    /\ http_pc = "idle"
    /\ stale = {}
    /\ stopped = {}
    /\ window = [calls |-> 0, requests |-> 0]
    /\ last = NoStep("none")
    /\ unit \in [phase : {"args"}, fn : {"server", "osrm", "geocode"},
                  loc : Places,
                  route : {None}, end : UnitEnds,
                  update : {FALSE}, issued : {FALSE}, svc : {"na"},
                  result : {None}, updates : {0}, attempts : {0}]

MainVars == <<gui_task, navigation_gui, nav_state, active_connections, pc,
              local, http_pc, stale, stopped, window, last>>

\* server.py:157
DecideServer ==
    /\ unit.phase = "args"
    /\ unit.fn = "server"
    /\ unit' = [unit EXCEPT !.phase = "decided", !.updates = Bump(@),
                  !.update = should_update_route(Tuple(unit.loc), unit.route)]
    /\ UNCHANGED MainVars

\* the same decision taken by OSRMServer.should_update_route
DecideOsrm ==
    /\ unit.phase = "args"
    /\ unit.fn = "osrm"
    /\ unit' = [unit EXCEPT !.phase = "decided", !.updates = Bump(@),
                  !.update = osrm_should_update_route(Tuple(unit.loc),
                                                      unit.route)]
    /\ UNCHANGED MainVars

\* server.py:158-161
CallGetDirections(svc) ==
    /\ unit.phase = "decided"
    /\ unit.update
    /\ LET r == get_directions(Tuple(unit.loc), unit.end, svc) IN
       unit' = [unit EXCEPT !.phase = "called", !.issued = r.issued,
                            !.svc = svc, !.result = r.route,
                            !.attempts = r.attempts]
    /\ UNCHANGED MainVars

\* The same location is reported again: a route that was returned has
\* become the current route (server.py:163).  When the first update was
\* within the arrival threshold of the destination it ended with
\* nav_state.clear() (lines 173-178) and the next update does not pass the
\* test of line 150.
RepeatUpdate ==
    /\ unit.phase = "called"
    /\ unit.fn \in {"server", "osrm"}
    /\ unit.updates < MaxCount
    /\ ~is_near_destination(Tuple(unit.loc), unit.end)
    /\ unit' = [unit EXCEPT !.phase = "args", !.update = FALSE,
                  !.issued = FALSE, !.svc = "na", !.result = None,
                  !.attempts = 0,
                  !.route = IF unit.result # None THEN unit.result ELSE @]
    /\ UNCHANGED MainVars

\* server.py:129: the destination's address is resolved.
CallValidateAddress(answer) ==
    /\ unit.phase = "args"
    /\ unit.fn = "geocode"
    /\ LET r == validate_address(answer) IN
       unit' = [unit EXCEPT !.phase = "called", !.svc = answer.kind,
                            !.result = r.coords, !.attempts = r.attempts]
    /\ UNCHANGED MainVars

NextReroute ==
    \/ DecideServer
    \/ DecideOsrm
    \/ \E svc \in ServiceAnswers : CallGetDirections(svc)
    \/ RepeatUpdate
    \/ \E answer \in GeocoderAnswers : CallValidateAddress(answer)

SpecReroute == InitReroute /\ [][NextReroute]_vars

----------------------------------------------------------------------------
(* RouteCache, routing.py:59-87, applied on its own: an OrderedDict from    *)
(* key to (route_data, timestamp), modelled as the sequence of its items    *)
(* in dictionary order, and a clock standing for time.time().               *)

\* expiry: int = 300 (seconds), routing.py:61
expiry == 300

\* max_size of the cache under study (the constructor's argument)
max_size == 3

MaxClock == 300

\* seconds that pass between two operations
Elapses == {100, 200}

\* get_key, routing.py:66-68: the text "lat,lon-lat,lon" of the two
\* coordinate pairs; two keys are equal exactly when the pairs are.
get_key(start, end) == <<start, end>>

\* the keys used: routes from three locations to the destination DAEYEON
CacheKeys == {get_key(a, "DAEYEON") : a \in {"NEAR", "EDGE", "PKNU"}}

\* route data as stored for a key; rev tells two routes for one key apart
CacheData(key, rev) ==
    [shape |-> "route", from |-> key[1], to |-> key[2], rev |-> rev]

CacheRevs == {1, 2}

IndexOf(cache, key) ==
    IF \E i \in 1..Len(cache) : cache[i].key = key
    THEN CHOOSE i \in 1..Len(cache) : cache[i].key = key
    ELSE 0

Without(cache, i) ==
    [j \in 1..(Len(cache) - 1) |-> IF j < i THEN cache[j] ELSE cache[j + 1]]

IsFreshInclusive(now, timestamp) == now - timestamp <= expiry

\* routing.py:75
IsFresh(now, timestamp) == now - timestamp < expiry

\* RouteCache.get, routing.py:70-80
RouteCacheGet(cache, key, now) ==
    LET i == IndexOf(cache, key) IN
    IF i # 0
    THEN IF IsFresh(now, cache[i].timestamp)
         THEN [result |-> cache[i].route_data, cache |-> cache]
         ELSE [result |-> None, cache |-> Without(cache, i)]
    ELSE [result |-> None, cache |-> cache]

\* RouteCache.set, routing.py:82-87.  popitem(last=False) drops the first
\* item; assigning to a key the dictionary holds replaces its value where
\* it stands, assigning to a new key appends.
RouteCacheSet(cache, key, route_data, now) ==
    LET kept  == IF Len(cache) >= max_size THEN Tail(cache) ELSE cache
        i     == IndexOf(kept, key)
        entry == [key |-> key, route_data |-> route_data, timestamp |-> now]
    IN  [evicted |-> IF Len(cache) >= max_size THEN cache[1].key ELSE None,
         cache   |-> IF i # 0 THEN [kept EXCEPT ![i] = entry]
                     ELSE Append(kept, entry)]

\* unit in this specification: the cache, the clock, the operation just
\* applied (op), and two records of what was asked of the cache: puts, for
\* each key the dictionary holds the data and time of its latest set; and
\* recency, the keys the dictionary holds in the order of their latest set.
InitCache ==
    /\ gui_task = "pending"
    /\ navigation_gui = FALSE
    /\ nav_state = NavInit
    /\ active_connections = {}
    /\ pc = [c \in Clients |-> "closed"]
    /\ local = [c \in Clients |-> None]
    /\ http_pc = "idle"
    /\ stale = {}
    /\ stopped = {}
    /\ window = [calls |-> 0, requests |-> 0]
    /\ last = NoStep("none")
    /\ unit = [phase |-> "cache", cache |-> <<>>, clock |-> 0,
               puts |-> [k \in CacheKeys |-> None], recency |-> <<>>,
               op |-> [kind |-> "none"]]

CachePut(key, rev) ==
    /\ unit.phase = "cache"
    /\ LET r    == RouteCacheSet(unit.cache, key, CacheData(key, rev),
                                 unit.clock)
           held == {r.cache[i].key : i \in 1..Len(r.cache)}
       IN  unit' = [unit EXCEPT
                !.cache = r.cache,
                !.puts = [k \in CacheKeys |->
                            IF k = key
                            THEN [route_data |-> CacheData(key, rev),
                                  at |-> unit.clock]
                            ELSE IF k \in held THEN unit.puts[k] ELSE None],
                !.recency = Append(SelectSeq(unit.recency,
                                LAMBDA k : k \in held /\ k # key), key),
                !.op = [kind |-> "put", key |-> key,
                        full |-> Len(unit.cache) >= max_size,
                        evicted |-> r.evicted,
                        oldest |-> IF unit.recency = <<>> THEN None
                                   ELSE Head(unit.recency)]]
    /\ UNCHANGED MainVars

CacheGet(key) ==
    /\ unit.phase = "cache"
    /\ LET r    == RouteCacheGet(unit.cache, key, unit.clock)
           held == {r.cache[i].key : i \in 1..Len(r.cache)}
       IN  unit' = [unit EXCEPT
                !.cache = r.cache,
                !.puts = [k \in CacheKeys |->
                            IF k \in held THEN unit.puts[k] ELSE None],
                !.recency = SelectSeq(unit.recency, LAMBDA k : k \in held),
                !.op = [kind |-> "get", key |-> key, result |-> r.result,
                        asked |-> unit.puts[key],
                        held |-> key \in held]]
    /\ UNCHANGED MainVars

CacheElapse(d) ==
    /\ unit.phase = "cache"
    /\ unit.clock + d <= MaxClock
    /\ unit' = [unit EXCEPT !.clock = @ + d, !.op = [kind |-> "elapse"]]
    /\ UNCHANGED MainVars

NextCache ==
    \/ \E key \in CacheKeys : \E rev \in CacheRevs : CachePut(key, rev)
    \/ \E key \in CacheKeys : CacheGet(key)
    \/ \E d \in Elapses : CacheElapse(d)

SpecCache == InitCache /\ [][NextCache]_vars

----------------------------------------------------------------------------
(* RouteManager.get_next_instruction, routing.py:124-205, applied on its    *)
(* own to routes with legs and steps.  A maneuver type or modifier is the   *)
(* sequence of its words ("turn" is <<"turn">>, no modifier is <<>>), so    *)
(* that f"{type} {modifier}".strip() is the concatenation.  The Korean      *)
(* phrases of instruction_translation are written in Latin letters.         *)

TableKeys ==
    {<<"turn">>, <<"turn", "right">>, <<"turn", "left">>, <<"continue">>,
     <<"straight">>, <<"slight", "right">>, <<"slight", "left">>,
     <<"sharp", "right">>, <<"sharp", "left">>, <<"uturn">>,
     <<"roundabout">>, <<"merge">>, <<"ramp">>, <<"exit">>,
     <<"keep", "right">>, <<"keep", "left">>, <<"fork">>,
     <<"fork", "right">>, <<"fork", "left">>, <<"fork", "straight">>,
     <<"enter", "roundabout">>, <<"exit", "roundabout">>, <<"finish">>,
     <<"via">>, <<"head">>, <<"end", "of", "road">>, <<"motorway">>,
     <<"motorway", "link">>, <<"on", "ramp">>, <<"off", "ramp">>}

\* instruction_translation, routing.py:19-57
instruction_translation(key) ==
    CASE key = <<"turn">>                 -> "hoejeon"
      [] key = <<"turn", "right">>        -> "uhoejeon"
      [] key = <<"turn", "left">>         -> "jwahoejeon"
      [] key = <<"continue">>             -> "jikjin"
      [] key = <<"straight">>             -> "jikjin"
      [] key = <<"slight", "right">>      -> "ucheuk"
      [] key = <<"slight", "left">>       -> "jwacheuk"
      [] key = <<"sharp", "right">>       -> "geup-uhoejeon"
      [] key = <<"sharp", "left">>        -> "geup-jwahoejeon"
      [] key = <<"uturn">>                -> "yuteon"
      [] key = <<"roundabout">>           -> "roteori"
      [] key = <<"merge">>                -> "hapryu"
      [] key = <<"ramp">>                 -> "raempeu"
      [] key = <<"exit">>                 -> "chulgu"
      [] key = <<"keep", "right">>        -> "ucheuk yuji"
      [] key = <<"keep", "left">>         -> "jwacheuk yuji"
      [] key = <<"fork">>                 -> "ucheuk"
      [] key = <<"fork", "right">>        -> "ucheuk"
      [] key = <<"fork", "left">>         -> "jwacheuk"
      [] key = <<"fork", "straight">>     -> "jikjin"
      [] key = <<"enter", "roundabout">>  -> "roteori jinip"
      [] key = <<"exit", "roundabout">>   -> "roteori chulgu"
      [] key = <<"finish">>               -> "dochak"
      [] key = <<"via">>                  -> "gyeongyu"
      [] key = <<"head">>                 -> "jinhaeng"
      [] key = <<"end", "of", "road">>    -> "doro kkeut"
      [] key = <<"motorway">>             -> "gosokdoro"
      [] key = <<"motorway", "link">>     -> "gosokdoro jinip"
      [] key = <<"on", "ramp">>           -> "jinip"
      [] key = <<"off", "ramp">>          -> "chulgu"

ManeuverPhraseTypeFirst(type, modifier) ==
    IF type \in TableKeys THEN instruction_translation(type)
    ELSE IF type \o modifier \in TableKeys
    THEN instruction_translation(type \o modifier)
    ELSE "jikjin"

\* lines 175-183 (and 155-164): the phrase for a maneuver
ManeuverPhrase(type, modifier) ==
    IF type \o modifier \in TableKeys
    THEN instruction_translation(type \o modifier)
    ELSE IF type \in TableKeys THEN instruction_translation(type)
    ELSE "jikjin"

\* calculate_distance, routing.py:216-228: the haversine distance with
\* R = 6371000, in whole centimetres
calculate_distance(point1, point2) == HaversineCm(point1, point2)

\* a step of a leg: the first point of its geometry (None when the step
\* has no geometry), its distance in metres and its maneuver
RouteStep(at, distance, type, modifier) ==
    [at |-> at, distance |-> distance, type |-> type, modifier |-> modifier]

\* a route with one leg of the given steps
LegRoute(steps) ==
    [shape |-> "route", has_legs |-> TRUE, legs |-> <<[steps |-> steps]>>]

WalkRoute ==
    LegRoute(<<RouteStep(Tuple("PKNU"), 1398, <<"depart">>, <<>>),
               RouteStep(Tuple("EDGE"), 11, <<"turn">>, <<"right">>),
               RouteStep(Tuple("NEAR"), 12, <<"turn">>, <<"left">>),
               RouteStep(Tuple("DAEYEON"), 0, <<"arrive">>, <<>>)>>)

\* two steps begin at the same point
TieRoute ==
    LegRoute(<<RouteStep(Tuple("PKNU"), 1420, <<"depart">>, <<>>),
               RouteStep(Tuple("DAEYEON"), 0, <<"roundabout">>, <<>>),
               RouteStep(Tuple("DAEYEON"), 0, <<"arrive">>, <<>>)>>)

BrokenRoute == LegRoute(<<RouteStep(None, 5, <<"turn">>, <<"left">>)>>)

\* has_legs: whether the route has the key 'legs'
GuideRoutes ==
    {None, [shape |-> "route", has_legs |-> FALSE, legs |-> <<>>],
     [shape |-> "route", has_legs |-> TRUE, legs |-> <<>>], LegRoute(<<>>),
     WalkRoute, TieRoute, BrokenRoute}

Sum(steps, from) ==
    LET RECURSIVE Go(_)
        Go(i) == IF i > Len(steps) THEN 0 ELSE steps[i].distance + Go(i + 1)
    IN  Go(from)

\* lines 135-146: the index (from 1) of the first step whose first point
\* is nearest to the location
ClosestStepIndex(current_location, steps) ==
    CHOOSE i \in 1..Len(steps) :
        /\ \A j \in 1..Len(steps) :
              calculate_distance(At(current_location), At(steps[i].at))
                 <= calculate_distance(At(current_location), At(steps[j].at))
        /\ \A j \in 1..(i - 1) :
              calculate_distance(At(current_location), At(steps[j].at))
                 > calculate_distance(At(current_location), At(steps[i].at))

\* A distance as it is written in a message: "shortly" (jamsi hu), whole
\* metres ("150m") or kilometres with one decimal ("1.5km", value in tenths
\* of a kilometre); NoText where the message has no such part.
NoText == [unit |-> "none", value |-> 0]
Shortly == [unit |-> "shortly", value |-> 0]
Metres(n) == [unit |-> "m", value |-> n]
Km(tenths) == [unit |-> "km", value |-> tenths]

\* the distances d = 50 mod 100 below 3000 m for which the double d/1000
\* lies above the decimal d/1000, so that the format :.1f rounds it up
HalfUp == {1050, 1350, 1550, 1750, 1850, 2350, 2450, 2750, 2850, 2950}

\* f"{metres/1000:.1f}", routing.py:196 and 214: the number of tenths of a
\* kilometre nearest to the double metres/1000
OneDecimal(metres) ==
    IF metres % 100 > 50 \/ (metres % 100 = 50 /\ metres \in HalfUp)
    THEN metres \div 100 + 1
    ELSE metres \div 100

\* lines 185-192: the distance to the next maneuver
AheadText(distance_to_next) ==
    IF distance_to_next < 20 THEN Shortly ELSE Metres(distance_to_next)

\* lines 194-198: the distance left to the destination
RemainingText(remaining_distance) ==
    IF remaining_distance > 1000
    THEN Km(OneDecimal(remaining_distance))
    ELSE Metres(remaining_distance)

Sentinel(kind) ==
    [kind |-> kind, phrase |-> "", ahead |-> NoText, remaining |-> NoText]

\* what one call returns and does: result is the text returned (by its
\* parts), index the closest step chosen (0 when none was), manager the
\* RouteManager's fields after the call.
GuideAnswer(result, index, manager) ==
    [result |-> result, index |-> index, manager |-> manager]

get_next_instruction_cursor(current_location, route, manager) ==
    IF route = None
    THEN GuideAnswer(Sentinel("error"), 0, manager)
    ELSE IF ~route.has_legs \/ route.legs = <<>>
    THEN GuideAnswer(Sentinel("no_legs"), 0, manager)
    ELSE IF route.legs[1].steps = <<>>
    THEN GuideAnswer(Sentinel("no_steps"), 0, manager)
    ELSE IF current_location = None
               \/ \E i \in 1..Len(route.legs[1].steps) :
                      route.legs[1].steps[i].at = None
    THEN GuideAnswer(Sentinel("error"), 0, manager)
    ELSE LET steps == route.legs[1].steps
             i     == ClosestStepIndex(current_location, steps)
         IN  IF i = Len(steps)
             THEN GuideAnswer(Sentinel("arrived"), i,
                      [manager EXCEPT !.current_segment_index = i])
             ELSE LET instruction ==
                          [kind      |-> "guide",
                           phrase    |-> ManeuverPhrase(steps[i + 1].type,
                                                        steps[i + 1].modifier),
                           ahead     |-> AheadText(steps[i].distance),
                           remaining |-> RemainingText(Sum(steps, i))]
                  IN  GuideAnswer(instruction, i,
                          [manager EXCEPT !.last_instruction = instruction,
                                          !.current_segment_index = i])

get_next_instruction(current_location, route, manager) ==
    IF route = None
    THEN \* 'legs' not in None raises TypeError, caught at line 203
         GuideAnswer(Sentinel("error"), 0, manager)
    ELSE IF ~route.has_legs \/ route.legs = <<>>
    THEN GuideAnswer(Sentinel("no_legs"), 0, manager)
    ELSE IF route.legs[1].steps = <<>>
    THEN GuideAnswer(Sentinel("no_steps"), 0, manager)
    ELSE IF current_location = None
               \/ \E i \in 1..Len(route.legs[1].steps) :
                      route.legs[1].steps[i].at = None
    THEN \* subscripting None, or a missing key, raises inside the loop
         GuideAnswer(Sentinel("error"), 0, manager)
    ELSE LET steps == route.legs[1].steps
             i     == ClosestStepIndex(current_location, steps)
         IN  IF i = Len(steps)
             THEN GuideAnswer(Sentinel("arrived"), i, manager)
             ELSE LET instruction ==
                          [kind      |-> "guide",
                           phrase    |-> ManeuverPhrase(steps[i + 1].type,
                                                        steps[i + 1].modifier),
                           ahead     |-> AheadText(steps[i].distance),
                           remaining |-> RemainingText(Sum(steps, i))]
                  IN  GuideAnswer(instruction, i,
                          [manager EXCEPT !.last_instruction = instruction])

\* unit in this specification: the route and the navigation session it
\* belongs to, the RouteManager's fields, and the last call: its location,
\* what it returned, the step it chose (index) and the step the call
\* before it chose (prev), and the route requests issued so far.
InitGuide ==
    /\ gui_task = "pending"
    /\ navigation_gui = FALSE
    /\ nav_state = NavInit
    /\ active_connections = {}
    /\ pc = [c \in Clients |-> "closed"]
    /\ local = [c \in Clients |-> None]
    /\ http_pc = "idle"
    /\ stale = {}
    /\ stopped = {}
    /\ window = [calls |-> 0, requests |-> 0]
    /\ last = NoStep("none")
    /\ \E route \in GuideRoutes :
          unit = [phase |-> "guide", route |-> route,
                  session |-> [set_destination(
                                   update_location(NavInit, Dict("PKNU")),
                                   Dict("DAEYEON"))
                               EXCEPT !.route = route],
                  manager |-> [last_instruction |-> None,
                               current_segment_index |-> 0],
                  loc |-> None, result |-> None, index |-> 0, prev |-> 0,
                  calls |-> 0, requests |-> 0]

\* the instruction for a location is asked for
GetInstruction(loc) ==
    /\ unit.phase = "guide"
    /\ LET r == get_next_instruction(loc, unit.route, unit.manager) IN
       unit' = [unit EXCEPT !.loc = loc, !.result = r.result,
                            !.index = r.index, !.prev = unit.index,
                            !.manager = r.manager, !.calls = Bump(@)]
    /\ UNCHANGED MainVars

\* server.py:162-163: a new route, when there is one, replaces the route
ReplaceRoute(route) ==
    /\ unit.phase = "guide"
    /\ route # None
    /\ route # unit.route
    /\ unit' = [unit EXCEPT !.route = route, !.session.route = route,
                            !.index = 0, !.prev = 0]
    /\ UNCHANGED MainVars

NextGuide ==
    \/ \E loc \in {Tuple(p) : p \in Places} \cup {None} : GetInstruction(loc)
    \/ \E route \in GuideRoutes : ReplaceRoute(route)

SpecGuide == InitGuide /\ [][NextGuide]_vars

----------------------------------------------------------------------------
(* The wording of an instruction: get_next_instruction and                  *)
(* translate_instruction applied to one maneuver and its distances.         *)

\* translate_instruction, routing.py:207-214: the maneuver is the key as
\* one string; the message has the distance and the phrase
translate_instruction(maneuver, distance) ==
    [kind      |-> "translate",
     phrase    |-> IF maneuver \in TableKeys
                   THEN instruction_translation(maneuver) ELSE "jikjin",
     ahead     |-> IF distance < 1000 THEN Metres(distance)
                   ELSE Km(OneDecimal(distance)),
     remaining |-> NoText]

\* maneuver types and modifiers the routing service is given here
PhraseTypes ==
    {<<"turn">>, <<"fork">>, <<"exit">>, <<"arrive">>,
     <<"end", "of", "road">>, <<"continue">>}

PhraseModifiers == {<<>>, <<"right">>, <<"straight">>, <<"roundabout">>}

\* distances of the current step, and of the step after it, in metres
PhraseDistances == {0, 19, 20, 150, 999, 1000, 1500}

PhraseRests == {0, 1, 50}

\* the route of the call: the current step begins at the location, the
\* next step has the maneuver and is the last
PhraseRoute(type, modifier, distance, rest) ==
    LegRoute(<<RouteStep(Tuple("PKNU"), distance, <<"depart">>, <<>>),
               RouteStep(Tuple("EDGE"), rest, type, modifier),
               RouteStep(Tuple("DAEYEON"), 0, <<"arrive">>, <<>>)>>)

\* unit in this specification: the maneuver of the next step, the distance
\* of the current step and of the next, the function applied (fn) and what
\* it returned.
InitPhrase ==
    /\ gui_task = "pending"
    /\ navigation_gui = FALSE
    /\ nav_state = NavInit
    /\ active_connections = {}
    /\ pc = [c \in Clients |-> "closed"]
    /\ local = [c \in Clients |-> None]
    /\ http_pc = "idle"
    /\ stale = {}
    /\ stopped = {}
    /\ window = [calls |-> 0, requests |-> 0]
    /\ last = NoStep("none")
    /\ \E type \in PhraseTypes, modifier \in PhraseModifiers,
          distance \in PhraseDistances, rest \in PhraseRests :
          unit = [phase |-> "phrase", type |-> type, modifier |-> modifier,
                  distance |-> distance, rest |-> rest,
                  fn |-> "none", result |-> Sentinel("none")]

\* get_next_instruction at the start of the current step
PhraseGuide ==
    /\ unit.phase = "phrase"
    /\ unit.fn # "guide"
    /\ unit' = [unit EXCEPT
                   !.fn = "guide",
                   !.result =
                      get_next_instruction(
                          Tuple("PKNU"),
                          PhraseRoute(unit.type, unit.modifier,
                                      unit.distance, unit.rest),
                          [last_instruction |-> None,
                           current_segment_index |-> 0]).result]
    /\ UNCHANGED MainVars

\* translate_instruction for the maneuver and the distance
PhraseTranslate ==
    /\ unit.phase = "phrase"
    /\ unit.fn # "translate"
    /\ unit' = [unit EXCEPT
                   !.fn = "translate",
                   !.result = translate_instruction(
                                  unit.type \o unit.modifier, unit.distance)]
    /\ UNCHANGED MainVars

NextPhrase == PhraseGuide \/ PhraseTranslate

SpecPhrase == InitPhrase /\ [][NextPhrase]_vars

----------------------------------------------------------------------------
(* websocket_endpoint of main.py, lines 78-138, with the ConnectionManager  *)
(* of server.py.  navigation_system.update_location and handle_destination  *)
(* are taken by the success they return.  unit holds the reply sent for     *)
(* the last message and the number of messages handled.                     *)

MainReply(c, message, type) == [client |-> c, message |-> message, type |-> type]

InitMain ==
    /\ gui_task = "pending"
    /\ navigation_gui = FALSE
    /\ nav_state = NavInit
    /\ active_connections = {}
    /\ pc = [c \in Clients |-> "closed"]
    /\ local = [c \in Clients |-> None]
    /\ http_pc = "idle"
    /\ stale = {}
    /\ stopped = {}
    /\ window = [calls |-> 0, requests |-> 0]
    /\ last = NoStep("none")
    /\ unit = [phase |-> "main", reply |-> MainReply(0, "none", "none"),
               handled |-> 0]

MainUnchanged ==
    UNCHANGED <<gui_task, navigation_gui, nav_state, local, http_pc, stale,
                stopped, window, last>>

\* line 80: manager.connect; the websocket is one that is not connected yet
MainConnect(c) ==
    /\ unit.phase = "main"
    /\ pc[c] = "closed" /\ c \notin active_connections
    /\ active_connections' = active_connections \cup {c}
    /\ pc' = [pc EXCEPT ![c] = "recv"]
    /\ UNCHANGED unit
    /\ MainUnchanged

\* lines 89-107: a location message; with data the reply follows the
\* success of navigation_system.update_location, without data it is error
MainRecvLocation(c, has_data, success) ==
    /\ unit.phase = "main"
    /\ pc[c] = "recv"
    /\ unit' = [unit EXCEPT
                   !.reply = MainReply(c, "location",
                                 IF has_data /\ success THEN "ack"
                                 ELSE "error"),
                   !.handled = Bump(@)]
    /\ UNCHANGED <<active_connections, pc>>
    /\ MainUnchanged

\* lines 109-122: a destination message; without data nothing is sent
MainRecvDestination(c, has_data, success) ==
    /\ unit.phase = "main"
    /\ pc[c] = "recv"
    /\ unit' = [unit EXCEPT
                   !.reply = MainReply(c, "destination",
                                 IF ~has_data THEN "none"
                                 ELSE IF success THEN "ack" ELSE "error"),
                   !.handled = Bump(@)]
    /\ UNCHANGED <<active_connections, pc>>
    /\ MainUnchanged

\* lines 124-129: any other message type
MainRecvOther(c) ==
    /\ unit.phase = "main"
    /\ pc[c] = "recv"
    /\ unit' = [unit EXCEPT !.reply = MainReply(c, "other", "error"),
                            !.handled = Bump(@)]
    /\ UNCHANGED <<active_connections, pc>>
    /\ MainUnchanged

\* lines 134-136: an exception while a message is processed (text that is
\* not JSON at line 85, a JSON value without .get at line 86): the
\* websocket is closed and the handler ends; manager.disconnect is not
\* called
MainRecvMalformed(c) ==
    /\ unit.phase = "main"
    /\ pc[c] = "recv"
    /\ pc' = [pc EXCEPT ![c] = "closed"]
    /\ unit' = [unit EXCEPT !.reply = MainReply(c, "malformed", "none"),
                            !.handled = Bump(@)]
    /\ UNCHANGED active_connections
    /\ MainUnchanged

\* lines 131-133: receive_text raises WebSocketDisconnect
MainClientDisconnect(c) ==
    /\ unit.phase = "main"
    /\ pc[c] = "recv"
    /\ active_connections' = active_connections \ {c}
    /\ pc' = [pc EXCEPT ![c] = "closed"]
    /\ UNCHANGED unit
    /\ MainUnchanged

NextMain ==
    \E c \in Clients :
        \/ MainConnect(c)
        \/ \E has_data, success \in BOOLEAN :
               MainRecvLocation(c, has_data, success)
        \/ \E has_data, success \in BOOLEAN :
               MainRecvDestination(c, has_data, success)
        \/ MainRecvOther(c)
        \/ MainRecvMalformed(c)
        \/ MainClientDisconnect(c)

SpecMain == InitMain /\ [][NextMain]_vars

----------------------------------------------------------------------------
(* The client, client.py.  main connects and then runs three coroutines on  *)
(* one event loop: voice_command_handler, gps_data_sender and               *)
(* websocket_receiver.  A coroutine runs from one await to the next without *)
(* interruption, so an action is one such stretch; the blocking calls       *)
(* (listen_for_command, listen_for_destination, get_current_location) are   *)
(* inside a stretch and their results are inputs.  unit holds the globals   *)
(* navigation_active and websocket_connection ("none" for None, "open", or  *)
(* "lost": the object is still set but the connection is closed), the       *)
(* position of main (mpc), of the voice handler (vpc) and of the receiver   *)
(* (rpc), the messages of the server not yet received (inbox), and records  *)
(* of what was done: armed (a start_navigation command was handled after    *)
(* the last navigation_end or stop_navigation), start (the handling of the  *)
(* last start_navigation command taken) and step (the last stretch).        *)

MaxInbox == 1

VoiceCommands == {"start_navigation", "stop_navigation", "reroute", "none"}

ServerEvents == {"voice_guidance", "navigation_end", "malformed"}

\* the last stretch: who ran, what it sent, and navigation_active,
\* websocket_connection and armed as they were when it began
ClientStep(actor, sent) ==
    [actor |-> actor, sent |-> sent, active |-> unit.navigation_active,
     conn |-> unit.websocket_connection, armed |-> unit.armed]

\* lines 11-17 and main up to the first connect_websocket (line 138)
InitClient ==
    /\ gui_task = "pending"
    /\ navigation_gui = FALSE
    /\ nav_state = NavInit
    /\ active_connections = {}
    /\ pc = [c \in Clients |-> "closed"]
    /\ local = [c \in Clients |-> None]
    /\ http_pc = "idle"
    /\ stale = {}
    /\ stopped = {}
    /\ window = [calls |-> 0, requests |-> 0]
    /\ last = NoStep("none")
    /\ unit = [phase |-> "client", navigation_active |-> FALSE,
               websocket_connection |-> "none", mpc |-> "connect",
               vpc |-> "idle", rpc |-> "idle", inbox |-> <<>>,
               armed |-> FALSE,
               start |-> [state |-> "none", dest_sent |-> FALSE],
               step |-> [actor |-> "none", sent |-> "none", active |-> FALSE,
                         conn |-> "none", armed |-> FALSE]]

\* websocket_receiver with websocket_connection None loops without an await
\* (lines 107-109): the event loop runs nothing else from then on
LoopHeld == unit.rpc = "spin"

Gathered == unit.phase = "client" /\ unit.mpc = "gather" /\ ~LoopHeld

\* await websocket_connection.send, lines 49, 61, 69, 90: the message goes
\* out on an open connection; on a closed one send raises
CanSend == unit.websocket_connection = "open"

\* main, lines 136-150: connect_websocket returns; on success the three
\* coroutines are started with asyncio.gather, otherwise main sleeps 5 s
MainConnected(ok) ==
    /\ unit.phase = "client"
    /\ unit.mpc = "connect"
    /\ unit' = IF ok
               THEN [unit EXCEPT !.websocket_connection = "open",
                                 !.mpc = "gather", !.vpc = "top",
                                 !.rpc = "top",
                                 !.step = ClientStep("main", "none")]
               ELSE [unit EXCEPT !.mpc = "sleep",
                                 !.step = ClientStep("main", "none")]
    /\ UNCHANGED MainVars

\* main, line 150 back to line 138
MainRetry ==
    /\ unit.phase = "client"
    /\ unit.mpc = "sleep"
    /\ unit' = [unit EXCEPT !.mpc = "connect",
                            !.step = ClientStep("main", "none")]
    /\ UNCHANGED MainVars

\* voice_command_handler, lines 31-78, from the top of its loop to its
\* next await: the sleep at line 74 or 78, or connect_websocket at line 46
VoiceCommand(command, destination) ==
    /\ Gathered
    /\ unit.vpc = "top"
    /\ unit' =
         IF command = "start_navigation" /\ ~unit.navigation_active
         THEN IF ~destination
              THEN \* lines 53-55
                   [unit EXCEPT !.navigation_active = FALSE, !.armed = TRUE,
                                !.start = [state |-> "done",
                                           dest_sent |-> FALSE],
                                !.step = ClientStep("voice", "none")]
              ELSE IF unit.websocket_connection = "none"
              THEN \* lines 45-46
                   [unit EXCEPT !.navigation_active = TRUE, !.armed = TRUE,
                                !.vpc = "connect",
                                !.start = [state |-> "pending",
                                           dest_sent |-> FALSE],
                                !.step = ClientStep("voice", "none")]
              ELSE \* lines 48-52; when send raises, lines 76-78
                   [unit EXCEPT !.navigation_active = TRUE, !.armed = TRUE,
                                !.start = [state |-> "done",
                                           dest_sent |-> CanSend],
                                !.step = ClientStep("voice",
                                            IF CanSend THEN "destination"
                                            ELSE "none")]
         ELSE IF command = "start_navigation"
         THEN [unit EXCEPT !.armed = TRUE,
                           !.step = ClientStep("voice", "none")]
         ELSE IF command = "stop_navigation"
         THEN \* lines 57-65
              [unit EXCEPT !.navigation_active = FALSE, !.armed = FALSE,
                           !.step = ClientStep("voice",
                                       IF unit.navigation_active /\ CanSend
                                       THEN "stop_navigation" ELSE "none")]
         ELSE IF command = "reroute"
         THEN \* lines 67-72
              [unit EXCEPT !.step = ClientStep("voice",
                                       IF unit.navigation_active /\ CanSend
                                       THEN "reroute" ELSE "none")]
         ELSE [unit EXCEPT !.step = ClientStep("voice", "none")]
    /\ UNCHANGED MainVars

\* lines 46-52: connect_websocket returns to the voice handler
VoiceConnected(ok) ==
    /\ Gathered
    /\ unit.vpc = "connect"
    /\ unit' = [unit EXCEPT
                   !.websocket_connection = IF ok THEN "open" ELSE "none",
                   !.vpc = "top",
                   !.start = [state |-> "done", dest_sent |-> ok],
                   !.step = ClientStep("voice",
                               IF ok THEN "destination" ELSE "none")]
    /\ UNCHANGED MainVars

GpsTickAlways(can_update, coords) ==
    /\ Gathered
    /\ unit' = [unit EXCEPT
                   !.step = ClientStep("gps",
                               IF can_update /\ coords /\ CanSend
                               THEN "location" ELSE "none")]
    /\ UNCHANGED MainVars

\* gps_data_sender, lines 84-101: one turn of its loop, from the sleep at
\* line 97 (or 101) to the next
GpsTick(can_update, coords) ==
    /\ Gathered
    /\ unit' = [unit EXCEPT
                   !.step = ClientStep("gps",
                               IF /\ unit.navigation_active
                                  /\ unit.websocket_connection # "none"
                                  /\ can_update /\ coords /\ CanSend
                               THEN "location" ELSE "none")]
    /\ UNCHANGED MainVars

\* websocket_receiver, lines 107-110, at the top of its loop (at the start
\* and after the sleep of line 122)
ReceiverTop ==
    /\ Gathered
    /\ unit.rpc = "top"
    /\ unit' = [unit EXCEPT
                   !.rpc = IF unit.websocket_connection # "none"
                           THEN "recv" ELSE "spin",
                   !.step = ClientStep("receiver", "none")]
    /\ UNCHANGED MainVars

\* lines 110-122: recv returns a message
ReceiverRecv ==
    /\ Gathered
    /\ unit.rpc = "recv"
    /\ unit.inbox # <<>>
    /\ LET event == Head(unit.inbox) IN
       unit' =
         IF event = "navigation_end"
         THEN [unit EXCEPT !.inbox = Tail(@), !.navigation_active = FALSE,
                           !.armed = FALSE,
                           !.step = ClientStep("receiver", "none")]
         ELSE IF event = "malformed"
         THEN \* json.loads or data["type"] raises: lines 119-122
              [unit EXCEPT !.inbox = Tail(@),
                           !.websocket_connection = "none", !.rpc = "top",
                           !.step = ClientStep("receiver", "none")]
         ELSE [unit EXCEPT !.inbox = Tail(@),
                           !.step = ClientStep("receiver", "none")]
    /\ UNCHANGED MainVars

\* lines 119-122: recv raises ConnectionClosed
ReceiverFail ==
    /\ Gathered
    /\ unit.rpc = "recv"
    /\ unit.websocket_connection = "lost"
    /\ unit.inbox = <<>>
    /\ unit' = [unit EXCEPT !.websocket_connection = "none", !.rpc = "top",
                            !.step = ClientStep("receiver", "none")]
    /\ UNCHANGED MainVars

\* the server, or the network, closes the connection
ConnectionLost ==
    /\ unit.phase = "client"
    /\ unit.websocket_connection = "open"
    /\ unit' = [unit EXCEPT !.websocket_connection = "lost",
                            !.step = ClientStep("server", "none")]
    /\ UNCHANGED MainVars

\* the server sends an event
ServerSends(event) ==
    /\ unit.phase = "client"
    /\ unit.websocket_connection = "open"
    /\ Len(unit.inbox) < MaxInbox
    /\ unit' = [unit EXCEPT !.inbox = Append(@, event),
                            !.step = ClientStep("server", "none")]
    /\ UNCHANGED MainVars

ClientCoroutines ==
    \/ \E ok \in BOOLEAN : MainConnected(ok)
    \/ MainRetry
    \/ \E command \in VoiceCommands, destination \in BOOLEAN :
           VoiceCommand(command, destination)
    \/ \E ok \in BOOLEAN : VoiceConnected(ok)
    \/ \E can_update, coords \in BOOLEAN : GpsTick(can_update, coords)
    \/ ReceiverTop
    \/ ReceiverRecv
    \/ ReceiverFail

NextClient ==
    \/ ClientCoroutines
    \/ ConnectionLost
    \/ \E event \in ServerEvents : ServerSends(event)

SpecClient == InitClient /\ [][NextClient]_vars

\* the event loop runs a coroutine that is ready to run
SpecClientFair == SpecClient /\ WF_vars(ClientCoroutines)

----------------------------------------------------------------------------
(* TTSManager, tts.py.  text_to_speech runs on the caller's thread under    *)
(* self._lock; _process_speech_queue runs on the speech thread and takes no *)
(* lock.  Each call of a queue.Queue method is atomic, and so is each read  *)
(* or write of self.message_queue; the threads interleave between them.     *)
(* Messages are numbered in the order they are passed.  unit holds the      *)
(* Queue objects by number (queues), the one self.message_queue refers to,  *)
(* the caller's position (ppc) and its temp_queue, the speech thread's      *)
(* position (tpc), the queue it has read from self.message_queue (tref)     *)
(* and its text, and records: the messages passed so far (offered), those   *)
(* accepted, those passed with priority, for a priority message the         *)
(* messages behind it when it became the head of self.message_queue         *)
(* (waiting; placed: the messages that did), the messages clear_queue has   *)
(* dropped (cleared), and the messages spoken, in order.                    *)

MaxMessages == 3

Messages == 1..MaxMessages

Range(seq) == {seq[i] : i \in 1..Len(seq)}

\* __init__, tts.py:21-42
InitTts ==
    /\ gui_task = "pending"
    /\ navigation_gui = FALSE
    /\ nav_state = NavInit
    /\ active_connections = {}
    /\ pc = [c \in Clients |-> "closed"]
    /\ local = [c \in Clients |-> None]
    /\ http_pc = "idle"
    /\ stale = {}
    /\ stopped = {}
    /\ window = [calls |-> 0, requests |-> 0]
    /\ last = NoStep("none")
    /\ unit = [phase |-> "tts", voice_enabled |-> TRUE,
               queues |-> [q \in 0..MaxMessages |-> <<>>],
               message_queue |-> 0, lock |-> FALSE,
               ppc |-> "idle", temp_queue |-> 0,
               tpc |-> "check", tref |-> 0, text |-> 0,
               is_speaking |-> FALSE,
               offered |-> 0, accepted |-> {},
               waiting |-> [m \in Messages |-> {}],
               priority |-> {}, placed |-> {}, cleared |-> {},
               spoken |-> <<>>]

\* set_voice_enabled, tts.py:146-149
set_voice_enabled(enabled) ==
    /\ unit.phase = "tts"
    /\ unit.ppc = "idle"
    /\ enabled # unit.voice_enabled
    /\ unit' = [unit EXCEPT !.voice_enabled = enabled]
    /\ UNCHANGED MainVars

\* text_to_speech, tts.py:82-105, up to the return or, with priority, up
\* to the first test of the loop at line 94.  The message is the next
\* number; temp_queue is a new Queue, numbered by the message.
text_to_speech(priority) ==
    /\ unit.phase = "tts"
    /\ unit.ppc = "idle"
    /\ unit.offered < MaxMessages
    /\ LET text == unit.offered + 1 IN
       unit' =
         IF ~unit.voice_enabled
         THEN [unit EXCEPT !.offered = text]
         ELSE IF ~priority
         THEN [unit EXCEPT
                 !.offered = text, !.accepted = @ \cup {text},
                 !.queues[unit.message_queue] = Append(@, text)]
         ELSE [unit EXCEPT
                 !.offered = text, !.accepted = @ \cup {text},
                 !.priority = @ \cup {text},
                 !.lock = TRUE, !.ppc = "check", !.temp_queue = text,
                 !.queues[text] = <<text>>]
    /\ UNCHANGED MainVars

\* line 94, and line 96 when the queue is found empty
PriorityCheck ==
    /\ unit.phase = "tts"
    /\ unit.ppc = "check"
    /\ unit' = IF unit.queues[unit.message_queue] = <<>>
               THEN [unit EXCEPT
                       !.message_queue = unit.temp_queue,
                       !.placed = @ \cup {unit.temp_queue},
                       !.waiting[unit.temp_queue] =
                           Range(Tail(unit.queues[unit.temp_queue])),
                       !.ppc = "idle", !.lock = FALSE]
               ELSE [unit EXCEPT !.ppc = "get"]
    /\ UNCHANGED MainVars

\* line 95: self.message_queue.get() waits while the queue is empty
PriorityMove ==
    /\ unit.phase = "tts"
    /\ unit.ppc = "get"
    /\ unit.queues[unit.message_queue] # <<>>
    /\ unit' = [unit EXCEPT
                   !.queues[unit.message_queue] = Tail(@),
                   !.queues[unit.temp_queue] =
                       Append(@, Head(unit.queues[unit.message_queue])),
                   !.ppc = "check"]
    /\ UNCHANGED MainVars

\* _process_speech_queue, line 111: the test that passes (when it fails
\* the thread sleeps 0.1 s and tests again)
ThreadCheck ==
    /\ unit.phase = "tts"
    /\ unit.tpc = "check"
    /\ unit.queues[unit.message_queue] # <<>> /\ ~unit.is_speaking
    /\ unit' = [unit EXCEPT !.tpc = "load"]
    /\ UNCHANGED MainVars

\* line 112: self.message_queue is read
ThreadLoad ==
    /\ unit.phase = "tts"
    /\ unit.tpc = "load"
    /\ unit' = [unit EXCEPT !.tref = unit.message_queue, !.tpc = "get"]
    /\ UNCHANGED MainVars

\* lines 112-113: get() on that queue waits while it is empty
ThreadGet ==
    /\ unit.phase = "tts"
    /\ unit.tpc = "get"
    /\ unit.queues[unit.tref] # <<>>
    /\ unit' = [unit EXCEPT !.text = Head(unit.queues[unit.tref]),
                            !.queues[unit.tref] = Tail(@),
                            !.is_speaking = TRUE, !.tpc = "say"]
    /\ UNCHANGED MainVars

\* lines 115-127: the text is spoken
ThreadSay ==
    /\ unit.phase = "tts"
    /\ unit.tpc = "say"
    /\ unit' = [unit EXCEPT !.spoken = Append(@, unit.text),
                            !.is_speaking = FALSE, !.tpc = "check"]
    /\ UNCHANGED MainVars

\* clear_queue, tts.py:133-137, is called: it takes no lock
clear_queue ==
    /\ unit.phase = "tts"
    /\ unit.ppc = "idle"
    /\ unit' = [unit EXCEPT !.ppc = "clear_check"]
    /\ UNCHANGED MainVars

\* line 135, and the return when the queue is found empty
ClearCheck ==
    /\ unit.phase = "tts"
    /\ unit.ppc = "clear_check"
    /\ unit' = [unit EXCEPT
                   !.ppc = IF unit.queues[unit.message_queue] = <<>>
                           THEN "idle" ELSE "clear_get"]
    /\ UNCHANGED MainVars

\* line 136: self.message_queue.get() waits while the queue is empty; the
\* message taken is dropped (cleared)
ClearGet ==
    /\ unit.phase = "tts"
    /\ unit.ppc = "clear_get"
    /\ unit.queues[unit.message_queue] # <<>>
    /\ unit' = [unit EXCEPT
                   !.queues[unit.message_queue] = Tail(@),
                   !.cleared = @ \cup {Head(unit.queues[unit.message_queue])},
                   !.ppc = "clear_check"]
    /\ UNCHANGED MainVars

\* stop_speaking, tts.py:139-144: while a text is spoken the engine is
\* stopped and is_speaking is reset
stop_speaking ==
    /\ unit.phase = "tts"
    /\ unit.ppc = "idle"
    /\ unit.is_speaking
    /\ unit' = [unit EXCEPT !.is_speaking = FALSE]
    /\ UNCHANGED MainVars

Caller ==
    \/ \E enabled \in BOOLEAN : set_voice_enabled(enabled)
    \/ \E priority \in BOOLEAN : text_to_speech(priority)
    \/ clear_queue
    \/ stop_speaking

CallerInCall == PriorityCheck \/ PriorityMove \/ ClearCheck \/ ClearGet

SpeechThread == ThreadCheck \/ ThreadLoad \/ ThreadGet \/ ThreadSay

NextTts == Caller \/ CallerInCall \/ SpeechThread

SpecTts == InitTts /\ [][NextTts]_vars

\* both threads are scheduled: a step that stays possible is taken
SpecTtsFair == SpecTts /\ WF_vars(CallerInCall) /\ WF_vars(SpeechThread)

----------------------------------------------------------------------------
(* The session of a websocket: websocket_endpoint keeps no state of its    *)
(* own between messages; what it reads and writes is the global nav_state  *)
(* (server.py:65), whichever websocket it serves.                          *)

SessionState(c) == nav_state

BothSet(ns) == ns.current_location # None /\ ns.destination # None

Guidance == {"voice_guidance", "navigation_end"}

----------------------------------------------------------------------------
(* C1..C10 *)

\* C1: in every reachable state the session has an active route only if
\* both its current location and its destination are set.  A route can be
\* installed only by a get_directions call that returns one, so the
\* invariant is stated with its inductive half: while such a call is in
\* flight (from a location update, a reroute command or POST /reroute)
\* location and destination are both set.
C1_RouteOnlyWithLocationAndDestination ==
    /\ nav_state.route # None => BothSet(nav_state)
    /\ Callers # {} => BothSet(nav_state)

\* A reroute (command or HTTP) is inside get_directions, about to apply
\* its result to the route.
C1_Witness ==
    /\ (http_pc = "call" \/ \E c \in Clients : pc[c] = "cmd_call")
    /\ BothSet(nav_state)

\* C2: a location update handled while a destination is set and the
\* location is within the arrival threshold of it emits navigation_end,
\* and after the handling destination and route are unset.
C2_ArrivalEndsNavigation ==
    (last.type = "location" /\ last.pre = "near" /\ last.done) =>
        /\ "navigation_end" \in last.out
        /\ nav_state.destination = None
        /\ nav_state.route = None

\* C3: a location update farther from the destination than the arrival
\* threshold never produces navigation_end and never clears the session;
\* with a route obtainable from the routing service it yields a
\* voice_guidance event, and the destination stays set.
C3_FarUpdateGuides ==
    (last.type = "location" /\ last.pre = "far" /\ last.done) =>
        /\ "navigation_end" \notin last.out
        /\ nav_state.destination # None
        /\ (last.svc = "route" => "voice_guidance" \in last.out)

\* C4: after a stop command is handled destination, current location and
\* route are all unset, and no voice_guidance or navigation_end event is
\* sent to that websocket until a new destination is set.
C4_StopSilencesSession ==
    /\ last.type = "stop" => nav_state = clear(nav_state)
    /\ \A c \in stopped : last.client = c => last.out \cap Guidance = {}

\* C5: sessions never share mutable state: a step of one websocket's
\* handler leaves the destination, current location and route of every
\* other connected websocket's session as they were.
C5_SessionsIsolated ==
    [][\A c \in Clients : \A d \in Clients \ {c} :
          (last'.client = c /\ pc[d] # "closed" /\ pc'[d] # "closed")
              => SessionState(d)' = SessionState(d)]_vars

\* C6: a reroute command handled while current location and destination
\* are set issues a route request to the routing service, and when the
\* service returns a route that route becomes the active route.
C6_RerouteCommandRecomputes ==
    (last.type = "reroute" /\ last.pre = "both" /\ last.done) =>
        /\ window.requests >= 1
        /\ (last.svc = "route" => nav_state.route # None)

\* C8: route requests are rate-limited per engine: at most one request in
\* a request interval, and location updates that make a recomputation due
\* (destination set, no active route) within one interval cause exactly
\* one route request.
C8_OneRequestPerInterval ==
    /\ window.requests <= 1
    /\ (last.type = "location" /\ last.pre = "far" /\ last.done)
          => window.requests = 1

\* C9: at no time is more than one route computation in flight for the
\* same session.  All websockets and POST /reroute work on the one
\* nav_state, so the bound is on all computations in flight.
C9_OneComputationInFlight == Cardinality(Callers) <= 1

\* A location update is inside get_directions.
C9_Witness == \E c \in Clients : pc[c] = "loc_call" /\ Callers = {c}

\* C10: the result of a route computation that began before a stop (or
\* before a new destination was set) is never applied after it: no
\* computation is in flight when a stop or a destination is handled, so
\* none is ever stale when it returns.
C10_NoStaleRouteResult == stale = {}

\* A stop is handled in an interval in which a computation ran: its
\* result was applied before the stop.
C10_Witness ==
    /\ last.type = "stop"
    /\ window.calls >= 1
    /\ Callers = {}

----------------------------------------------------------------------------
(* C11..C20 *)

\* C11: handling one location update sends at most one guidance event
\* (voice_guidance or navigation_end) to the client.
C11_AtMostOneGuidanceEvent ==
    last.type = "location" => Cardinality(last.out \cap Guidance) <= 1

\* A location update went through get_directions and the arrival check and
\* sent navigation_end, its only event.
C11_Witness ==
    /\ last.type = "location"
    /\ last.done
    /\ last.called
    /\ last.out = {"navigation_end"}

\* C12: the arrival check is evaluated on every location update handled
\* while a destination is set, whether or not a route was recomputed and
\* whether or not the map GUI exists.
C12_ArrivalCheckedEveryUpdate ==
    (last.type = "location" /\ last.pre \in {"near", "far"} /\ last.done)
        => last.checked

\* Coordinate (spec 3): latitude in [-90, 90], longitude in [-180, 180].
OutOfRange == {"OUTSIDE"}

\* C13: a location update with a latitude or longitude out of range is
\* rejected and leaves the session's state unchanged: no out-of-range
\* coordinate is ever the session's current location.
C13_InvalidCoordinateRejected ==
    nav_state.current_location # None
        => At(nav_state.current_location) \notin OutOfRange

\* C14: a destination message the geocoder cannot resolve is rejected: its
\* handling leaves destination, route and activity flag (the whole
\* nav_state) as they were.
C14_UnresolvedDestinationKeepsState ==
    [][(last'.type = "destination" /\ last'.pre = "notfound")
          => nav_state' = nav_state]_vars

\* An unresolvable destination was handled while a destination was set
\* and navigation active, and both still are.
C14_Witness ==
    /\ last.type = "destination"
    /\ last.pre = "notfound"
    /\ nav_state.destination # None
    /\ nav_state.is_active

\* C15: every rejected input (unresolvable destination, invalid or missing
\* location data, unknown message type) is answered with exactly one
\* event, of type error.
C15_RejectionsYieldOneError ==
    (last.done /\ (last.pre = "notfound"
                   \/ last.type \in {"other", "malformed"}))
        => last.out = {"error"}

\* C16: when the routing service fails or has no route for a location
\* update's computation, the session's route stays as it was and the
\* failure is reported to the client with an error event.
C16_RouteFailureKeepsRouteAndReports ==
    [][\A c \in Clients :
          (pc[c] = "loc_call" /\ pc'[c] # "loc_call" /\ last'.svc = "noroute")
              => /\ nav_state'.route = nav_state.route
                 /\ "error" \in last'.out]_vars

\* C17: a failure while handling one message is local: the connection
\* stays open.  Only the client's own disconnect ends a connection.
C17_FailureKeepsConnectionOpen ==
    [][\A c \in Clients :
          (pc[c] # "closed" /\ last'.type # "disconnect")
              => pc'[c] # "closed"]_vars

\* C18: every destination or location message is answered: when its
\* handling is over at least one event has been sent to the client.
C18_EveryMessageAnswered ==
    (last.type \in {"destination", "location"} /\ last.done)
        => last.out # {}

\* C19: a destination that resolves is stored in the session state, and
\* when the current location is already known its handling triggers a
\* route computation.
C19_DestinationStoredAndRouted ==
    (last.type = "destination" /\ last.pre = "found") =>
        /\ nav_state.destination # None
        /\ (nav_state.current_location # None => last.called)

\* C20: session state is destroyed on disconnect: a client that connects
\* right after the last client disconnected starts with current location,
\* destination and route unset.
C20_FreshSessionOnConnect ==
    [][(last.type = "disconnect" /\ last'.type = "connect"
            /\ active_connections = {})
          => /\ SessionState(last'.client)'.current_location = None
             /\ SessionState(last'.client)'.destination = None
             /\ SessionState(last'.client)'.route = None]_vars

----------------------------------------------------------------------------
(* C21..C30 *)

\* C21: RouteCache round trip and expiry.  A get for a key the cache was
\* given (and has not dropped for room) returns the data of the key's
\* latest set while its age is below the expiry time; at or past the
\* expiry time it returns nothing and the entry is gone, so that later
\* gets return nothing until the key is set again.
C21_CacheRoundTripAndExpiry ==
    (unit.phase = "cache" /\ unit.op.kind = "get") =>
        /\ (unit.op.asked # None /\ unit.clock - unit.op.asked.at < expiry)
              => unit.op.result = unit.op.asked.route_data
        /\ (unit.op.asked # None /\ unit.clock - unit.op.asked.at >= expiry)
              => unit.op.result = None /\ ~unit.op.held
        /\ unit.op.asked = None => unit.op.result = None
        /\ unit.op.result = None => ~unit.op.held

\* A get exactly at the expiry time found the entry and removed it.
C21_Witness ==
    /\ unit.phase = "cache"
    /\ unit.op.kind = "get"
    /\ unit.op.asked # None
    /\ unit.clock - unit.op.asked.at = expiry
    /\ unit.op.result = None

\* C27: the cache never holds more than max_size entries, and a set at
\* capacity evicts exactly the entry whose latest set is the oldest among
\* the entries held, also when keys were set again with new data.
C27_CapacityAndEvictionOrder ==
    unit.phase = "cache" =>
        /\ Len(unit.cache) <= max_size
        /\ (unit.op.kind = "put" /\ unit.op.full)
              => unit.op.evicted = unit.op.oldest

\* C22: a location update is idempotent: a location message that reports
\* the location the navigation state already holds, and that does not
\* trigger the arrival, sends no guidance event (no event at all) and
\* issues no route request in any step of its handling.
C22_RepeatedUpdateIssuesNothing ==
    [][(/\ last'.type = "location"
        /\ last'.again
        /\ ~(navigation_gui /\ last'.pre = "near"))
          => /\ last'.out = {}
             /\ window'.requests = window.requests]_vars

\* a repeated update, far from the destination and with a GUI, has called
\* get_directions and is fully handled
C22_Witness ==
    /\ last.type = "location"
    /\ last.again
    /\ last.pre = "far"
    /\ navigation_gui
    /\ last.called
    /\ last.done

\* C26: a transient failure of the geocoder or of the routing service is
\* retried before the failure is surfaced (more than one attempt, for any
\* max_retries of one or more), and a failure is never replaced by data.
C26_TransientFailureRetried ==
    (unit.phase = "called" /\ unit.svc \in {"timeout", "error"}
        /\ unit.attempts >= 1)
        => unit.attempts > 1 /\ unit.result = None

\* The handler of websocket c is in the middle of a message.
MidMessage(c) == pc[c] \in {"loc_call", "cmd_call", "arrive_send"}

\* C23: the events of one connection are handled one at a time and in
\* arrival order: the handler stands at its receive (or has ended) exactly
\* when the message it took last is fully handled, state updates and
\* events included.
C23_OneMessageAtATime ==
    \A c \in Clients :
        last.client = c => (last.done <=> ~MidMessage(c))

\* navigation_end has been sent for a location message and clear() is
\* still to come: the handler is not at its receive.
C23_Witness ==
    \E c \in Clients :
        /\ last.client = c
        /\ pc[c] = "arrive_send"
        /\ "navigation_end" \in last.out
        /\ ~last.done

\* C24: a routing-service (or geocoder) call made for one connection does
\* not block the others: while the call is outstanding a message of
\* another connection can be handled.
C24_CallDoesNotBlockOthers ==
    \A c \in Clients : \A d \in Clients \ {c} :
        (InCall(c) /\ pc[d] = "recv") => ENABLED RecvStop(d)

\* C25: a recomputation that is due is never dropped: when the handling of
\* a location update with a destination set and no active route is over
\* and no computation is in flight, a route request has been issued.
C25_DueRecomputationIssued ==
    (/\ last.type = "location"
     /\ last.pre \in {"near", "far"}
     /\ last.done
     /\ nav_state.route = None
     /\ Callers = {})
        => window.requests >= 1

\* a route that has no usable steps
NoUsableSteps(route) ==
    \/ route = None
    \/ ~route.has_legs
    \/ route.legs = <<>>
    \/ route.legs[1].steps = <<>>
    \/ \E i \in 1..Len(route.legs[1].steps) : route.legs[1].steps[i].at = None

CannotGuide == {"no_legs", "no_steps", "error"}

\* C28 as stated: getting the instruction is read-only: the call issues no
\* route request and changes neither the session nor the RouteManager, and
\* it returns a 'cannot guide' sentinel when the route has no usable steps.
C28_InstructionIsReadOnly ==
    [][(unit.phase = "guide" /\ unit'.route = unit.route) =>
          /\ unit'.requests = unit.requests
          /\ unit'.session = unit.session
          /\ unit'.manager = unit.manager
          /\ (NoUsableSteps(unit.route) => unit'.result.kind \in CannotGuide)
      ]_vars

\* C28 as amended: the call issues no route request and changes no session
\* state; of the RouteManager it changes only last_instruction, which it
\* sets to the instruction it returns; and it returns a 'cannot guide'
\* sentinel when the route has no usable steps.
C28_InstructionOnlyRecordsItself ==
    [][(unit.phase = "guide" /\ unit'.route = unit.route) =>
          /\ unit'.requests = unit.requests
          /\ unit'.session = unit.session
          /\ unit'.manager.current_segment_index
                = unit.manager.current_segment_index
          /\ unit'.manager.last_instruction
                \in {unit.manager.last_instruction, unit'.result}
          /\ (NoUsableSteps(unit.route) => unit'.result.kind \in CannotGuide)
      ]_vars

\* A maneuver instruction was returned and recorded as last_instruction.
C28_Witness ==
    /\ unit.phase = "guide"
    /\ unit.calls > 0
    /\ unit.result.kind = "guide"
    /\ unit.manager.last_instruction = unit.result

\* C29: when the step nearest to the location is the last step of the
\* route the 'arrived' instruction is returned, and the session is ended
\* and cleared as on arrival.
C29_LastStepEndsNavigation ==
    (/\ unit.phase = "guide"
     /\ unit.index # 0
     /\ unit.index = Len(unit.route.legs[1].steps))
        => /\ unit.result.kind = "arrived"
           /\ unit.session.destination = None
           /\ unit.session.route = None

\* C30: the step chosen is the first of the steps whose first point is
\* nearest to the location, and over consecutive calls on the same route
\* the index of the step chosen never decreases.
C30_CursorNearestAndMonotone ==
    (unit.phase = "guide" /\ unit.index # 0) =>
        LET steps == unit.route.legs[1].steps
            d(j)  == calculate_distance(At(unit.loc), At(steps[j].at))
        IN  /\ \A j \in 1..Len(steps) : d(unit.index) <= d(j)
            /\ \A j \in 1..(unit.index - 1) : d(j) > d(unit.index)
            /\ unit.prev # 0 => unit.index >= unit.prev

----------------------------------------------------------------------------
(* C31..C40                                                                 *)

\* C31: the phrase of an instruction is looked up in a fixed order for every
\* (type, modifier) pair: the compound key "type modifier" when the table
\* has it, otherwise the type alone, otherwise the phrase for going
\* straight on; the phrase depends on the pair only.
C31_PhraseLookupOrder ==
    unit.phase = "phrase" /\ unit.fn = "guide" =>
        LET key == unit.type \o unit.modifier IN
        /\ key \in TableKeys
              => unit.result.phrase = instruction_translation(key)
        /\ key \notin TableKeys /\ unit.type \in TableKeys
              => unit.result.phrase = instruction_translation(unit.type)
        /\ key \notin TableKeys /\ unit.type \notin TableKeys
              => unit.result.phrase = "jikjin"

\* a right turn is announced with the phrase of the compound key, which is
\* not the phrase of the type alone
C31_Witness ==
    /\ unit.phase = "phrase" /\ unit.fn = "guide"
    /\ unit.type = <<"turn">> /\ unit.modifier = <<"right">>
    /\ unit.result.phrase = "uhoejeon"
    /\ instruction_translation(<<"turn">>) # "uhoejeon"

\* C32: the distance to the next maneuver in an instruction is phrased
\* "shortly" below 20 m, in whole metres from 20 m to below 1000 m, and in
\* kilometres with one decimal from 1000 m on (150 gives "150m", 1500
\* gives "1.5km").
C32_DistanceToNextPhrasing ==
    unit.phase = "phrase" /\ unit.fn \in {"guide", "translate"} =>
        unit.result.ahead =
            IF unit.distance < 20 THEN Shortly
            ELSE IF unit.distance < 1000 THEN Metres(unit.distance)
            ELSE Km(OneDecimal(unit.distance))

\* C33: the remaining distance in an instruction is the sum of the
\* distances of the current step through the last step, phrased in metres
\* below 1000 and in kilometres from 1000 on, exactly 1000 included.
C33_RemainingDistancePhrasing ==
    unit.phase = "phrase" /\ unit.fn = "guide" =>
        LET sum == unit.distance + unit.rest IN
        unit.result.remaining =
            IF sum < 1000 THEN Metres(sum) ELSE Km(OneDecimal(sum))


\* C34: in every reachable state the is_active flag that /status reports is
\* true exactly when a destination is set, whatever sequence of
\* set_destination, update_location and clear has run.
C34_ActiveIffDestination ==
    get_status(nav_state).active <=> get_status(nav_state).destination # None

\* a session is cleared after it had a destination and a location
C34_Witness ==
    /\ last.type = "location" /\ last.done /\ last.pre = "near"
    /\ "navigation_end" \in last.out
    /\ ~nav_state.is_active /\ nav_state.destination = None

\* C35: a websocket is in ConnectionManager.active_connections exactly
\* while its handler loop is running: once the handler has ended, by a
\* client disconnect or by an error while a message is processed, the
\* websocket is no longer in the list.
C35_RegisteredWhileHandlerRuns ==
    \A c \in Clients : c \in active_connections <=> pc[c] # "closed"

\* C36: the client sends a location message only while navigation_active
\* is true and a connection exists: after a navigation_end event or a
\* stop_navigation command has been processed it sends none until a later
\* start_navigation command.
C36_LocationOnlyWhileNavigating ==
    unit.phase = "client" /\ unit.step.sent = "location" =>
        /\ unit.step.active
        /\ unit.step.conn # "none"
        /\ unit.step.armed

\* the sender takes a turn on an open connection after a navigation that
\* had begun was ended, and sends nothing
C36_Witness ==
    /\ unit.phase = "client"
    /\ unit.step.actor = "gps" /\ unit.step.sent = "none"
    /\ unit.step.conn = "open" /\ ~unit.step.armed
    /\ unit.start.dest_sent

\* C37: once a start_navigation command has been handled to its end,
\* navigation_active is true only if a destination message was sent; when
\* the destination is not recognised or cannot be sent it is false again.
C37_ActiveOnlyIfDestinationSent ==
    unit.phase = "client" /\ unit.start.state = "done"
                          /\ unit.navigation_active
        => unit.start.dest_sent

\* C38: whenever the connection of the running client is lost or a receive
\* fails, a new connection attempt is eventually made, so that
\* websocket_connection does not stay unset forever.
C38_ReconnectsEventually ==
    (unit.phase = "client" /\ unit.mpc = "gather"
                           /\ unit.websocket_connection = "none")
        ~> (unit.phase = "client"
              /\ (\/ unit.websocket_connection # "none"
                  \/ unit.vpc = "connect"
                  \/ unit.mpc = "connect"))

\* m is spoken, and before x is
SpokenBefore(m, x) ==
    \E i \in 1..Len(unit.spoken) :
        /\ unit.spoken[i] = m
        /\ \A j \in 1..i : unit.spoken[j] # x

\* C39: a message passed to text_to_speech with priority=True is placed at
\* the front of the queue: none of the messages that were still waiting
\* when it was enqueued is spoken before it, whatever the speech thread
\* does meanwhile.
C39_PriorityGoesFirst ==
    unit.phase = "tts" =>
        \A m \in unit.placed : \A x \in unit.waiting[m] :
            x \in Range(unit.spoken) => SpokenBefore(m, x)

\* C40: every message text_to_speech accepts while voice output is enabled
\* is eventually spoken, and none is spoken twice; the speech thread never
\* waits forever.  (A message clear_queue has taken out of the queue is not
\* asked to be spoken.)
C40_AcceptedIsSpokenOnce ==
    /\ [](unit.phase = "tts" =>
             \A i, j \in 1..Len(unit.spoken) :
                 unit.spoken[i] = unit.spoken[j] => i = j)
    /\ \A m \in Messages :
           (unit.phase = "tts" /\ m \in unit.accepted)
               ~> (unit.phase = "tts"
                     /\ m \in Range(unit.spoken) \cup unit.cleared)

====
